---- MODULE Spec2Model ----
(***************************************************************************)
(* Model of the order book engine of sbmueller/orderbook                   *)
(* (src/src/order_book.rs, src/src/order_book/order.rs).                   *)
(*                                                                         *)
(* A BTreeMap<i32, Vec<Order>> is a function from its set of keys to       *)
(* sequences of orders; iteration order is ascending key order.            *)
(* An Option<(i32, i32)> is None (the empty tuple) or the pair <<p, v>>.   *)
(* A message sent on log_sender is the record of what format! prints.      *)
(***************************************************************************)
EXTENDS Integers, Sequences, FiniteSets, TLC

\* ------------------------------------------------------------------ bounds
MaxUser == 2
MaxOrderId == 1
MaxPrice == 2
MaxQty == 2
MaxOrders == 3
MaxInput == 2

Users == 1..MaxUser
OrderIds == 1..MaxOrderId
Prices == 1..MaxPrice
Qtys == 1..MaxQty

\* ------------------------------------------------------------------- state
VARIABLES
    ask_book,      \* OrderBook.ask_book
    bid_book,      \* OrderBook.bid_book
    lowest_ask,    \* OrderBook.lowest_ask
    highest_bid,   \* OrderBook.highest_bid
    match_orders,  \* OrderBook.match_orders
    log,           \* messages sent on log_sender by the last add_order call
    last,          \* the order handed to the last add_order call
    fresh,         \* reference engine: constructed by OrderBook::new at the
                   \* last flush and fed every order applied since then
    gone,          \* how many orders the last add_order call took out of the books
    input,         \* main.rs: the records of the file the reader has not sent yet
    order_chan,    \* main.rs: the orders in flight from order_sender to order_receiver
    output_chan,   \* main.rs: the messages in flight from output_sender to output_receiver
    output_sender, \* main.rs: output_sender (owned by order_book) is not dropped yet
    reader_pc,     \* main.rs: position of the read thread
    main_pc,       \* main.rs: position of main
    output_pc,     \* main.rs: position of the output thread
    printed,       \* main.rs: the lines println! has written
    emitted        \* every message the engine has sent, in the order sent

engine_vars == <<ask_book, bid_book, lowest_ask, highest_bid, match_orders, log, last, fresh, gone>>

pipe_vars == <<input, order_chan, output_chan, output_sender, reader_pc, main_pc,
               output_pc, printed, emitted>>

vars == <<engine_vars, pipe_vars>>

\* -------------------------------------------------------------- order.rs
None == <<>>

\* Order::new_user_order
NewOrderRec(user, price, qty, side, user_order_id) ==
    [kind |-> "New", user |-> user, price |-> price, qty |-> qty,
     side |-> side, user_order_id |-> user_order_id]

\* Order::new_cancellation
new_cancellation(user, user_order_id) ==
    [kind |-> "Cancel", user |-> user, price |-> 0, qty |-> 0,
     side |-> "Buy", user_order_id |-> user_order_id]

\* Order::new_flush
new_flush ==
    [kind |-> "Flush", user |-> 0, price |-> 0, qty |-> 0,
     side |-> "Buy", user_order_id |-> 0]

\* the order of no add_order call (state after construction)
NoOrder ==
    [kind |-> "None", user |-> 0, price |-> 0, qty |-> 0,
     side |-> "Buy", user_order_id |-> 0]

NewOrders ==
    {NewOrderRec(u, p, q, s, i) :
        u \in Users, p \in Prices, q \in Qtys, s \in {"Buy", "Sell"}, i \in OrderIds}

CancelOrders == {new_cancellation(u, i) : u \in Users, i \in OrderIds}

\* ------------------------------------------------------- output messages
\* "A, {user}, {user_order_id}"
Accept(user, id) == [type |-> "A", user |-> user, user_order_id |-> id]
\* "R, {user}, {user_order_id}"
Reject(user, id) == [type |-> "R", user |-> user, user_order_id |-> id]
\* "B, {B|S}, {price}, {volume}"
BookUpdate(side, price, volume) == [type |-> "B", side |-> side, level |-> <<price, volume>>]
\* "B, {B|S}, -, -"
BookUpdateNone(side) == [type |-> "B", side |-> side, level |-> None]
\* "T, {}, {}, {}, {}, {}, {}"
Trade(bu, bi, su, si, price, qty) ==
    [type |-> "T", buy_user |-> bu, buy_order_id |-> bi,
     sell_user |-> su, sell_order_id |-> si, price |-> price, qty |-> qty]
\* ""
Blank == [type |-> "Blank"]

\* ------------------------------------------------------------- helpers
MinKey(S) == CHOOSE x \in S : \A y \in S : x <= y
MaxKey(S) == CHOOSE x \in S : \A y \in S : x >= y

\* bucket.1.iter().map(|o| o.qty).sum()
RECURSIVE Volume(_)
Volume(bucket) ==
    IF bucket = <<>> THEN 0 ELSE Head(bucket).qty + Volume(Tail(bucket))

\* BTreeMap::remove
MapRemove(book, key) == [p \in DOMAIN book \ {key} |-> book[p]]

\* Vec::remove
VecRemove(v, pos) == [i \in 1..(Len(v) - 1) |-> IF i < pos THEN v[i] ELSE v[i + 1]]

\* self.log_sender.send(msg)
Send(r, msg) == [r EXCEPT !.log = Append(@, msg)]

\* OrderBook::new: the engine record an operation works on
NewOrderBook ==
    [ask_book |-> <<>>, bid_book |-> <<>>, lowest_ask |-> None,
     highest_bid |-> None, log |-> <<>>]

\* ----------------------------------------------------- order_book.rs
update_lowest_ask(r) ==
    IF DOMAIN r.ask_book # {}
    THEN LET price == MinKey(DOMAIN r.ask_book)
             volume == Volume(r.ask_book[price])
         IN IF r.lowest_ask = None \/ r.lowest_ask[1] # price \/ r.lowest_ask[2] # volume
            THEN [Send(r, BookUpdate("S", price, volume)) EXCEPT !.lowest_ask = <<price, volume>>]
            ELSE r
    ELSE IF r.lowest_ask # None
         THEN [Send(r, BookUpdateNone("S")) EXCEPT !.lowest_ask = None]
         ELSE r

update_highest_bid(r) ==
    IF DOMAIN r.bid_book # {}
    THEN LET price == MaxKey(DOMAIN r.bid_book)
             volume == Volume(r.bid_book[price])
         IN IF r.highest_bid = None \/ r.highest_bid[1] # price \/ r.highest_bid[2] # volume
            THEN [Send(r, BookUpdate("B", price, volume)) EXCEPT !.highest_bid = <<price, volume>>]
            ELSE r
    ELSE IF r.highest_bid # None
         THEN [Send(r, BookUpdateNone("B")) EXCEPT !.highest_bid = None]
         ELSE r

get_highest_bid(r) == IF r.highest_bid = None THEN None ELSE <<r.highest_bid[1]>>

get_lowest_ask(r) == IF r.lowest_ask = None THEN None ELSE <<r.lowest_ask[1]>>

\* slip: > and < instead of >= and <=, an equal price is let through
crosses_the_book_strict(r, order) ==
    IF order.side = "Buy"
    THEN IF get_lowest_ask(r) # None THEN order.price > get_lowest_ask(r)[1] ELSE FALSE
    ELSE IF get_highest_bid(r) # None THEN order.price < get_highest_bid(r)[1] ELSE FALSE

\* order.price >= la for a buy, order.price <= hb for a sell, false on None
crosses_the_book(r, order) ==
    IF order.side = "Buy"
    THEN IF get_lowest_ask(r) # None THEN order.price >= get_lowest_ask(r)[1] ELSE FALSE
    ELSE IF get_highest_bid(r) # None THEN order.price <= get_highest_bid(r)[1] ELSE FALSE

\* slip: rposition instead of position
SellOrderPos_last(bucket, buy_order) ==
    LET hits == {i \in 1..Len(bucket) :
                    bucket[i].price <= buy_order.price /\ bucket[i].qty = buy_order.qty}
    IN IF hits = {} THEN 0 ELSE MaxKey(hits)

\* bucket.1.iter().position(|x| x.price <= buy_order.price && x.qty == buy_order.qty)
SellOrderPos(bucket, buy_order) ==
    LET hits == {i \in 1..Len(bucket) :
                    bucket[i].price <= buy_order.price /\ bucket[i].qty = buy_order.qty}
    IN IF hits = {} THEN 0 ELSE MinKey(hits)

\* bucket.1.iter().position(|x| x.price >= sell_order.price && x.qty == sell_order.qty)
BuyOrderPos(bucket, sell_order) ==
    LET hits == {i \in 1..Len(bucket) :
                    bucket[i].price >= sell_order.price /\ bucket[i].qty = sell_order.qty}
    IN IF hits = {} THEN 0 ELSE MinKey(hits)

\* slip: the last bucket of the ask book instead of the first
AskBucketKey_last(book) == MaxKey(DOMAIN book)

\* self.ask_book.iter_mut().next(): the key of the bucket offered to a buy order
AskBucketKey(book) == MinKey(DOMAIN book)

\* self.bid_book.iter_mut().next_back(): the key of the bucket offered to a sell order
BidBucketKey(book) == MaxKey(DOMAIN book)

\* the result is the engine after the call and the returned order_traded
trade_buy_order(r, buy_order) ==
    IF DOMAIN r.ask_book = {}
    THEN [r |-> update_lowest_ask(r), order_traded |-> FALSE]
    ELSE LET key == AskBucketKey(r.ask_book)
             bucket == r.ask_book[key]
             pos == SellOrderPos(bucket, buy_order)
         IN IF pos = 0
            THEN [r |-> update_lowest_ask(r), order_traded |-> FALSE]
            ELSE LET sell_order == bucket[pos]
                     sent == Send(r, Trade(buy_order.user, buy_order.user_order_id,
                                           sell_order.user, sell_order.user_order_id,
                                           sell_order.price, sell_order.qty))
                     removed == [sent EXCEPT !.ask_book[key] = VecRemove(bucket, pos)]
                     pruned == IF removed.ask_book[key] = <<>>
                               THEN [removed EXCEPT !.ask_book = MapRemove(@, key)]
                               ELSE removed
                 IN [r |-> update_lowest_ask(pruned), order_traded |-> TRUE]

trade_sell_order(r, sell_order) ==
    IF DOMAIN r.bid_book = {}
    THEN [r |-> update_lowest_ask(r), order_traded |-> FALSE]
    ELSE LET key == BidBucketKey(r.bid_book)
             bucket == r.bid_book[key]
             pos == BuyOrderPos(bucket, sell_order)
         IN IF pos = 0
            THEN [r |-> update_lowest_ask(r), order_traded |-> FALSE]
            ELSE LET buy_order == bucket[pos]
                     sent == Send(r, Trade(buy_order.user, buy_order.user_order_id,
                                           sell_order.user, sell_order.user_order_id,
                                           sell_order.price, sell_order.qty))
                     removed == [sent EXCEPT !.bid_book[key] = VecRemove(bucket, pos)]
                     \* key_to_be_removed is taken out of the ask book
                     pruned == IF removed.bid_book[key] = <<>>
                               THEN [removed EXCEPT !.ask_book = MapRemove(@, key)]
                               ELSE removed
                 IN [r |-> update_lowest_ask(pruned), order_traded |-> TRUE]

\* slip: the order is put in front of its bucket instead of pushed at the end
inserter_front(book, order) ==
    IF order.price \in DOMAIN book
    THEN [book EXCEPT ![order.price] = <<order>> \o @]
    ELSE [p \in DOMAIN book \cup {order.price} |->
            IF p = order.price THEN <<order>> ELSE book[p]]

\* the closure inserter of new_user_order
inserter(book, order) ==
    IF order.price \in DOMAIN book
    THEN [book EXCEPT ![order.price] = Append(@, order)]
    ELSE [p \in DOMAIN book \cup {order.price} |->
            IF p = order.price THEN <<order>> ELSE book[p]]

\* new_user_order from the Accept message on
accept_order(r, m, order) ==
    LET accepted == Send(r, Accept(order.user, order.user_order_id))
        traded == IF ~m THEN [r |-> accepted, order_traded |-> FALSE]
                  ELSE IF order.side = "Buy"
                       THEN trade_buy_order(accepted, order)
                       ELSE trade_sell_order(accepted, order)
    IN IF m /\ traded.order_traded
       THEN traded.r
       ELSE IF order.side = "Buy"
            THEN update_highest_bid([traded.r EXCEPT !.bid_book = inserter(@, order)])
            ELSE update_lowest_ask([traded.r EXCEPT !.ask_book = inserter(@, order)])

\* slip: the Reject is sent but the return is missing
reject_order_no_return(r, m, order) ==
    accept_order(Send(r, Reject(order.user, order.user_order_id)), m, order)

\* the rejecting branch of new_user_order: send the Reject and return
reject_order(r, m, order) == Send(r, Reject(order.user, order.user_order_id))

\* slip: the crossing test is not guarded by !self.match_orders
new_user_order_unguarded(r, m, order) ==
    IF crosses_the_book(r, order)
    THEN reject_order(r, m, order)
    ELSE accept_order(r, m, order)

new_user_order(r, m, order) ==
    IF ~m /\ crosses_the_book(r, order)
    THEN reject_order(r, m, order)
    ELSE accept_order(r, m, order)

\* slip: retain keeps an order only if both its user and its id differ
book_remover_either(book, order) ==
    LET retained == [p \in DOMAIN book |->
                        SelectSeq(book[p], LAMBDA o :
                            o.user # order.user /\ o.user_order_id # order.user_order_id)]
        empty == {p \in DOMAIN book : retained[p] = <<>>}
    IN IF empty = {} THEN retained ELSE MapRemove(retained, MaxKey(empty))

\* the closure book_remover of cancel_order
book_remover(book, order) ==
    LET retained == [p \in DOMAIN book |->
                        SelectSeq(book[p], LAMBDA o :
                            o.user # order.user \/ o.user_order_id # order.user_order_id)]
        empty == {p \in DOMAIN book : retained[p] = <<>>}
    IN IF empty = {} THEN retained ELSE MapRemove(retained, MaxKey(empty))

cancel_order(r, order) ==
    LET accepted == Send(r, Accept(order.user, order.user_order_id))
        asks == update_lowest_ask([accepted EXCEPT !.ask_book = book_remover(@, order)])
    IN update_highest_bid([asks EXCEPT !.bid_book = book_remover(@, order)])

\* slip: highest_bid is not reset
flush_keeps_bid(r) ==
    [Send(r, Blank) EXCEPT !.ask_book = <<>>, !.bid_book = <<>>, !.lowest_ask = None]

flush(r) ==
    [Send(r, Blank) EXCEPT !.ask_book = <<>>, !.bid_book = <<>>,
                           !.highest_bid = None, !.lowest_ask = None]

add_order(r, m, order) ==
    CASE order.kind = "New" -> new_user_order(r, m, order)
      [] order.kind = "Cancel" -> cancel_order(r, order)
      [] order.kind = "Flush" -> flush(r)

\* ------------------------------------------------------------ the engine
\* the engine at the start of an add_order call
Self ==
    [ask_book |-> ask_book, bid_book |-> bid_book, lowest_ask |-> lowest_ask,
     highest_bid |-> highest_bid, log |-> <<>>]

RECURSIVE SumLen(_, _)
SumLen(book, keys) ==
    IF keys = {} THEN 0
    ELSE LET k == CHOOSE x \in keys : TRUE
         IN Len(book[k]) + SumLen(book, keys \ {k})

\* number of orders resting in a book
Resting(book) == SumLen(book, DOMAIN book)

\* the orders resting at a price of a book
RestingAt(book, p) == IF p \in DOMAIN book THEN book[p] ELSE <<>>

\* how many orders fewer rest in the buckets `keys` of book `after` than of `before`
RECURSIVE GoneFrom(_, _, _)
GoneFrom(before, after, keys) ==
    IF keys = {} THEN 0
    ELSE LET k == CHOOSE x \in keys : TRUE
             d == Len(before[k]) - Len(RestingAt(after, k))
         IN (IF d > 0 THEN d ELSE 0) + GoneFrom(before, after, keys \ {k})

Apply(order) ==
    LET r == add_order(Self, match_orders, order)
    IN /\ ask_book' = r.ask_book
       /\ bid_book' = r.bid_book
       /\ lowest_ask' = r.lowest_ask
       /\ highest_bid' = r.highest_bid
       /\ log' = r.log
       /\ last' = order
       /\ gone' = GoneFrom(ask_book, r.ask_book, DOMAIN ask_book)
                + GoneFrom(bid_book, r.bid_book, DOMAIN bid_book)
       /\ match_orders' = match_orders
       /\ fresh' = IF order.kind = "Flush"
                   THEN NewOrderBook
                   ELSE add_order([fresh EXCEPT !.log = <<>>], match_orders, order)

\* OrderBook::new
EngineInit ==
    /\ ask_book = <<>>
    /\ bid_book = <<>>
    /\ lowest_ask = None
    /\ highest_bid = None
    /\ match_orders \in BOOLEAN
    /\ log = <<>>
    /\ last = NoOrder
    /\ fresh = NewOrderBook
    /\ gone = 0

\* the engine alone, add_order called directly: no thread, no channel in use
Init ==
    /\ EngineInit
    /\ input = <<>>
    /\ order_chan = <<>>
    /\ output_chan = <<>>
    /\ output_sender = TRUE
    /\ reader_pc = "done"
    /\ main_pc = "recv"
    /\ output_pc = "none"
    /\ printed = <<>>
    /\ emitted = <<>>

NewOrder ==
    /\ \E order \in NewOrders :
          /\ Resting(ask_book) + Resting(bid_book) < MaxOrders
          /\ Apply(order)
    /\ UNCHANGED pipe_vars

CancelOrder ==
    /\ \E order \in CancelOrders : Apply(order)
    /\ UNCHANGED pipe_vars

Flush ==
    /\ Apply(new_flush)
    /\ UNCHANGED pipe_vars

Next == NewOrder \/ CancelOrder \/ Flush

Spec == Init /\ [][Next]_vars

\* ------------------------------------------------------------- main.rs
\* the input files: every sequence of at most MaxInput orders
RECURSIVE InputsOfLen(_)
InputsOfLen(n) ==
    IF n = 0 THEN {<<>>}
    ELSE {Append(i, o) : i \in InputsOfLen(n - 1),
                         o \in NewOrders \cup CancelOrders \cup {new_flush}}

Inputs == UNION {InputsOfLen(n) : n \in 0..MaxInput}

\* main up to the spawn of the read thread
PipeInit ==
    /\ EngineInit
    /\ input \in Inputs
    /\ order_chan = <<>>
    /\ output_chan = <<>>
    /\ output_sender = TRUE
    /\ reader_pc = "run"
    /\ main_pc = "recv"
    /\ output_pc = "none"
    /\ printed = <<>>
    /\ emitted = <<>>

\* process_input_orders: sender.send(Order::from(&record))
ReaderSend ==
    /\ reader_pc = "run"
    /\ input # <<>>
    /\ order_chan' = Append(order_chan, Head(input))
    /\ input' = Tail(input)
    /\ UNCHANGED <<engine_vars, output_chan, output_sender, reader_pc, main_pc,
                   output_pc, printed, emitted>>

\* process_input_orders returns Ok(()): the thread ends and drops order_sender
ReaderEnd ==
    /\ reader_pc = "run"
    /\ input = <<>>
    /\ reader_pc' = "done"
    /\ UNCHANGED <<engine_vars, input, order_chan, output_chan, output_sender, main_pc,
                   output_pc, printed, emitted>>

\* while let Ok(data) = order_receiver.recv() { order_book.add_order(data); }
MainRecv ==
    /\ main_pc = "recv"
    /\ order_chan # <<>>
    /\ Apply(Head(order_chan))
    /\ order_chan' = Tail(order_chan)
    /\ output_chan' = output_chan \o log'
    /\ emitted' = emitted \o log'
    /\ UNCHANGED <<input, output_sender, reader_pc, main_pc, output_pc, printed>>

\* recv() is Err: the channel is empty and order_sender is dropped
MainLoopEnd ==
    /\ main_pc = "recv"
    /\ order_chan = <<>>
    /\ reader_pc = "done"
    /\ main_pc' = "spawn"
    /\ UNCHANGED <<engine_vars, input, order_chan, output_chan, output_sender, reader_pc,
                   output_pc, printed, emitted>>

\* let output_handle = thread::spawn(...)
SpawnOutput ==
    /\ main_pc = "spawn"
    /\ output_pc' = "run"
    /\ main_pc' = "drop"
    /\ UNCHANGED <<engine_vars, input, order_chan, output_chan, output_sender, reader_pc,
                   printed, emitted>>

\* slip: order_book is not dropped before the join
DropOrderBook_forgotten ==
    /\ main_pc = "drop"
    /\ main_pc' = "join_output"
    /\ UNCHANGED <<engine_vars, input, order_chan, output_chan, output_sender, reader_pc,
                   output_pc, printed, emitted>>

\* std::mem::drop(order_book): output_sender is destroyed
DropOrderBook ==
    /\ main_pc = "drop"
    /\ output_sender' = FALSE
    /\ main_pc' = "join_output"
    /\ UNCHANGED <<engine_vars, input, order_chan, output_chan, reader_pc,
                   output_pc, printed, emitted>>

\* while let Ok(data) = output_receiver.recv() { println!("{}", data); }
OutputPrint ==
    /\ output_pc = "run"
    /\ output_chan # <<>>
    /\ printed' = Append(printed, Head(output_chan))
    /\ output_chan' = Tail(output_chan)
    /\ UNCHANGED <<engine_vars, input, order_chan, output_sender, reader_pc, main_pc,
                   output_pc, emitted>>

\* recv() is Err: the channel is empty and output_sender is dropped
OutputEnd ==
    /\ output_pc = "run"
    /\ output_chan = <<>>
    /\ ~output_sender
    /\ output_pc' = "done"
    /\ UNCHANGED <<engine_vars, input, order_chan, output_chan, output_sender, reader_pc,
                   main_pc, printed, emitted>>

\* slip: main does not wait for the output thread
JoinOutput_no_wait ==
    /\ main_pc = "join_output"
    /\ main_pc' = "join_read"
    /\ UNCHANGED <<engine_vars, input, order_chan, output_chan, output_sender, reader_pc,
                   output_pc, printed, emitted>>

\* output_handle.join().unwrap()
JoinOutput ==
    /\ main_pc = "join_output"
    /\ output_pc = "done"
    /\ main_pc' = "join_read"
    /\ UNCHANGED <<engine_vars, input, order_chan, output_chan, output_sender, reader_pc,
                   output_pc, printed, emitted>>

\* read_handle.join().unwrap(), then main returns
JoinRead ==
    /\ main_pc = "join_read"
    /\ reader_pc = "done"
    /\ main_pc' = "done"
    /\ UNCHANGED <<engine_vars, input, order_chan, output_chan, output_sender, reader_pc,
                   output_pc, printed, emitted>>

Reader == ReaderSend \/ ReaderEnd

Main == MainRecv \/ MainLoopEnd \/ SpawnOutput \/ DropOrderBook \/ JoinOutput \/ JoinRead

Output == OutputPrint \/ OutputEnd

PipeNext == Reader \/ Main \/ Output

\* every thread that can take a step is eventually scheduled
PipeSpec ==
    /\ PipeInit
    /\ [][PipeNext]_vars
    /\ WF_vars(Reader)
    /\ WF_vars(Main)
    /\ WF_vars(Output)

\* ============================================================== claims
\* the prices of a book at which at least one order rests
Populated(book) == {p \in DOMAIN book : book[p] # <<>>}

\* lowest price with a resting sell, highest price with a resting buy
BestAsk(asks) == MinKey(Populated(asks))
BestBid(bids) == MaxKey(Populated(bids))

\* the order crosses the book as it actually is
CrossesBook(order, asks, bids) ==
    IF order.side = "Buy"
    THEN Populated(asks) # {} /\ order.price >= BestAsk(asks)
    ELSE Populated(bids) # {} /\ order.price <= BestBid(bids)

\* the book of the order's own side, and of the opposite side
Own(order, asks, bids) == IF order.side = "Buy" THEN bids ELSE asks
Opp(order, asks, bids) == IF order.side = "Buy" THEN asks ELSE bids

\* best populated level of the book opposite to the order
BestOpp(order, opp) == IF order.side = "Buy" THEN BestAsk(opp) ELSE BestBid(opp)

\* the positions of the Trade messages in a log
Trades(lg) == {i \in DOMAIN lg : lg[i].type = "T"}

\* the same orders rest at every price, in the same sequence
SameResting(before, after) ==
    \A p \in Prices : RestingAt(after, p) = RestingAt(before, p)

\* after = before with the order appended to the bucket of its price
InsertedInto(before, after, order) ==
    /\ RestingAt(after, order.price) = Append(RestingAt(before, order.price), order)
    /\ \A p \in Prices \ {order.price} : RestingAt(after, p) = RestingAt(before, p)

\* after = before without the j-th order resting at price p
RemovedAt(before, after, p, j) ==
    /\ RestingAt(after, p) = VecRemove(RestingAt(before, p), j)
    /\ \A q \in Prices \ {p} : RestingAt(after, q) = RestingAt(before, q)

\* the Trade t names the incoming order and the resting order
Names(t, incoming, resting) ==
    IF incoming.side = "Buy"
    THEN /\ t.buy_user = incoming.user /\ t.buy_order_id = incoming.user_order_id
         /\ t.sell_user = resting.user /\ t.sell_order_id = resting.user_order_id
    ELSE /\ t.sell_user = incoming.user /\ t.sell_order_id = incoming.user_order_id
         /\ t.buy_user = resting.user /\ t.buy_order_id = resting.user_order_id

\* top of book derived from the book itself
TopOf(book, side) ==
    IF Populated(book) = {} THEN None
    ELSE LET p == IF side = "S" THEN BestAsk(book) ELSE BestBid(book)
         IN <<p, Volume(book[p])>>

\* the best populated level opposite to the order holds an order of the same
\* quantity at a marketable price
Eligible(order, opp) ==
    /\ Populated(opp) # {}
    /\ \E j \in 1..Len(opp[BestOpp(order, opp)]) :
          LET x == opp[BestOpp(order, opp)][j]
          IN /\ x.qty = order.qty
             /\ IF order.side = "Buy" THEN x.price <= order.price ELSE x.price >= order.price

\* the order is the same (user, user_order_id) as o
SameId(o, order) == o.user = order.user /\ o.user_order_id = order.user_order_id

\* no order resting in either book has the (user, user_order_id) of the order
NoRestingMatch(order, asks, bids) ==
    \A p \in Prices :
        /\ \A j \in 1..Len(RestingAt(asks, p)) : ~SameId(asks[p][j], order)
        /\ \A j \in 1..Len(RestingAt(bids, p)) : ~SameId(bids[p][j], order)

\* the orders of a bucket that do not have the (user, user_order_id) of the order
Others(bucket, order) == SelectSeq(bucket, LAMBDA o : ~SameId(o, order))

\* C1: in non-match mode a New order is answered with Reject if and only if
\* it crosses the book as it actually is (Buy at or above the lowest price at
\* which a sell rests, Sell at or below the highest price at which a buy
\* rests, never with an empty opposite book); a non-crossing New is answered
\* with Accept and inserted into the book of its side.
C1_RejectIffCrosses ==
    [][ (~match_orders /\ last'.kind = "New") =>
          /\ (log'[1] = Reject(last'.user, last'.user_order_id))
                <=> CrossesBook(last', ask_book, bid_book)
          /\ ~CrossesBook(last', ask_book, bid_book) =>
                /\ log'[1] = Accept(last'.user, last'.user_order_id)
                /\ InsertedInto(Own(last', ask_book, bid_book),
                                Own(last', ask_book', bid_book'), last')
      ]_vars

\* C2: in non-match mode a rejected New order emits exactly one event, the
\* Reject for its user and user_order_id, and leaves the bid book, the ask
\* book and both top-of-book caches unchanged.
C2_RejectChangesNothing ==
    [][ (~match_orders /\ last'.kind = "New"
            /\ \E i \in DOMAIN log' : log'[i].type = "R") =>
          /\ log' = <<Reject(last'.user, last'.user_order_id)>>
          /\ ask_book' = ask_book
          /\ bid_book' = bid_book
          /\ lowest_ask' = lowest_ask
          /\ highest_bid' = highest_bid
      ]_vars

\* a New order was rejected while orders rest on both sides
C2_Witness ==
    /\ ~match_orders
    /\ last.kind = "New"
    /\ log = <<Reject(last.user, last.user_order_id)>>
    /\ Populated(ask_book) # {}
    /\ Populated(bid_book) # {}

\* C3: in match mode every Trade carries the price of the resting order it
\* consumed, for an incoming Buy and for an incoming Sell alike.
C3_TradeAtRestingPrice ==
    [][ (match_orders /\ last'.kind = "New") =>
          \A i \in Trades(log') :
             LET opp == Opp(last', ask_book, bid_book)
                 oppAfter == Opp(last', ask_book', bid_book')
             IN \E p \in Prices : \E j \in 1..Len(RestingAt(opp, p)) :
                   /\ RemovedAt(opp, oppAfter, p, j)
                   /\ Names(log'[i], last', opp[p][j])
                   /\ log'[i].price = opp[p][j].price
      ]_vars

\* C4: in match mode, when a New order trades, the top of book of the side it
\* matched against is recomputed and, if the best (price, volume) of that
\* side changed, a BookUpdate for that side is emitted in the same call.
C4_TradeUpdatesMatchedSide ==
    [][ (match_orders /\ last'.kind = "New" /\ Trades(log') # {}) =>
          LET side == IF last'.side = "Buy" THEN "S" ELSE "B"
              before == TopOf(Opp(last', ask_book, bid_book), side)
              after == TopOf(Opp(last', ask_book', bid_book'), side)
          IN before # after =>
                /\ \E i \in DOMAIN log' :
                      log'[i] = [type |-> "B", side |-> side, level |-> after]
                /\ (IF side = "S" THEN lowest_ask' ELSE highest_bid') = after
      ]_vars

\* C5: in match mode a New order produces a Trade if and only if the best
\* populated level of the opposite book holds a resting order of the same
\* quantity at a marketable price.
C5_TradeIffEligibleAtBest ==
    [][ (match_orders /\ last'.kind = "New") =>
          (Trades(log') # {} <=> Eligible(last', Opp(last', ask_book, bid_book)))
      ]_vars

\* C6: in match mode one New order produces at most one Trade; the resting
\* order a Trade names was resting at the best populated level of the
\* opposite book, and the orders of every other level of that book stay.
C6_BestLevelOnly ==
    [][ (match_orders /\ last'.kind = "New") =>
          LET opp == Opp(last', ask_book, bid_book)
              oppAfter == Opp(last', ask_book', bid_book')
          IN /\ Cardinality(Trades(log')) <= 1
             /\ \A i \in Trades(log') :
                   /\ Populated(opp) # {}
                   /\ \E j \in 1..Len(opp[BestOpp(last', opp)]) :
                         /\ RemovedAt(opp, oppAfter, BestOpp(last', opp), j)
                         /\ Names(log'[i], last', opp[BestOpp(last', opp)][j])
             /\ Trades(log') = {} => SameResting(opp, oppAfter)
      ]_vars

\* a Buy traded while an order of its quantity at a marketable price rests
\* at another level of the ask book
C6_Witness ==
    /\ match_orders
    /\ last.kind = "New"
    /\ last.side = "Buy"
    /\ Trades(log) # {}
    /\ gone = 1
    /\ \E p \in Populated(ask_book) : \E j \in 1..Len(ask_book[p]) :
          ask_book[p][j].qty = last.qty /\ ask_book[p][j].price <= last.price

\* C7: in match mode a New order that traded is placed in neither book; one
\* that did not trade is appended, unchanged, at the end of the bucket of its
\* price on its own side.
C7_TradedOrAppended ==
    [][ (match_orders /\ last'.kind = "New") =>
          IF Trades(log') # {}
          THEN \A p \in Prices :
                  /\ Len(RestingAt(ask_book', p)) <= Len(RestingAt(ask_book, p))
                  /\ Len(RestingAt(bid_book', p)) <= Len(RestingAt(bid_book, p))
          ELSE /\ InsertedInto(Own(last', ask_book, bid_book),
                               Own(last', ask_book', bid_book'), last')
               /\ SameResting(Opp(last', ask_book, bid_book),
                              Opp(last', ask_book', bid_book'))
      ]_vars

\* a New order found no match although the opposite book is populated, and
\* rests behind an older order of its bucket
C7_Witness ==
    /\ match_orders
    /\ last.kind = "New"
    /\ Trades(log) = {}
    /\ Populated(Opp(last, ask_book, bid_book)) # {}
    /\ LET bucket == RestingAt(Own(last, ask_book, bid_book), last.price)
       IN /\ Len(bucket) >= 2
          /\ bucket[Len(bucket)] = last
          /\ bucket[1] # last

\* C8: a Cancel whose (user, user_order_id) matches no resting order emits
\* exactly the Accept for the cancel and leaves both books and both
\* top-of-book caches unchanged.
C8_UnknownCancelIsNoOp ==
    [][ (last'.kind = "Cancel" /\ NoRestingMatch(last', ask_book, bid_book)) =>
          /\ log' = <<Accept(last'.user, last'.user_order_id)>>
          /\ ask_book' = ask_book
          /\ bid_book' = bid_book
          /\ lowest_ask' = lowest_ask
          /\ highest_bid' = highest_bid
      ]_vars

\* C9: a Cancel removes from both books every resting order with its
\* (user, user_order_id) and no other: at every price of either side the
\* orders resting afterwards are the other orders, in their arrival order.
C9_CancelRemovesExactlyTheMatches ==
    [][ (last'.kind = "Cancel") =>
          \A p \in Prices :
             /\ RestingAt(ask_book', p) = Others(RestingAt(ask_book, p), last')
             /\ RestingAt(bid_book', p) = Others(RestingAt(bid_book, p), last')
      ]_vars

\* a Cancel took at least one order out of the books and a bucket holding
\* two or more orders is still resting
C9_Witness ==
    /\ last.kind = "Cancel"
    /\ gone >= 1
    /\ \E p \in Prices :
          \/ Len(RestingAt(ask_book, p)) >= 2
          \/ Len(RestingAt(bid_book, p)) >= 2

\* C10: Flush emits exactly one blank separator and leaves both books empty
\* and both caches absent; the engine then is, and after every later call
\* still is, in the state of an engine constructed at the flush and fed the
\* same orders, and emits the same events.
C10_FlushClearsAll ==
    /\ last.kind = "Flush" =>
          /\ log = <<Blank>>
          /\ ask_book = <<>>
          /\ bid_book = <<>>
          /\ lowest_ask = None
          /\ highest_bid = None
    /\ ask_book = fresh.ask_book
    /\ bid_book = fresh.bid_book
    /\ lowest_ask = fresh.lowest_ask
    /\ highest_bid = fresh.highest_bid
    /\ last.kind # "Flush" => log = fresh.log

\* a Flush cleared books in which orders were resting
C10_Witness ==
    /\ last.kind = "Flush"
    /\ gone >= 2

\* the positions of the BookUpdate messages of a side in a log
Updates(lg, side) == {i \in DOMAIN lg : lg[i].type = "B" /\ lg[i].side = side}

\* the book and the cache of a side ("S" the ask side, "B" the bid side)
BookOf(side, asks, bids) == IF side = "S" THEN asks ELSE bids
CacheOf(side, la, hb) == IF side = "S" THEN la ELSE hb

\* no bucket of the book is empty
NoEmptyBucket(book) == \A p \in DOMAIN book : book[p] # <<>>

\* the (user, user_order_id) pairs of the orders resting in a book
IdsOf(book) ==
    UNION {{<<book[p][j].user, book[p][j].user_order_id>> : j \in 1..Len(book[p])} :
              p \in DOMAIN book}

\* (user, user_order_id) is unique among the resting orders
UniqueIds(asks, bids) ==
    Cardinality(IdsOf(asks) \cup IdsOf(bids)) = Resting(asks) + Resting(bids)

\* C11: a New or Cancel emits no BookUpdate for a side whose best
\* (price, volume) equals the value last emitted for it (the cached one), and
\* exactly one BookUpdate, carrying the new value, for a side whose best
\* (price, volume) differs from it, absent included. (Flush resets the caches
\* without a BookUpdate and is not covered by the formula.)
C11_UpdateIffTopChanged ==
    [][ (last'.kind \in {"New", "Cancel"}) =>
          \A side \in {"S", "B"} :
             LET cached == CacheOf(side, lowest_ask, highest_bid)
                 now == TopOf(BookOf(side, ask_book', bid_book'), side)
             IN IF now = cached
                THEN Updates(log', side) = {}
                ELSE /\ Cardinality(Updates(log', side)) = 1
                     /\ \A i \in Updates(log', side) : log'[i].level = now
      ]_vars

\* C12: a resting order leaves its book only in a call that emits a Trade
\* naming it as the resting side, in a Cancel carrying its
\* (user, user_order_id), or in a Flush: in a New every bucket of either book
\* is unchanged, has the new order appended, or (in the opposite book) lost
\* the one order the Trade names; in a Cancel the orders of other ids stay.
C12_LeavesOnlyByTradeCancelFlush ==
    [][ /\ last'.kind = "New" =>
              \A side \in {"S", "B"} : \A p \in Prices :
                 LET before == RestingAt(BookOf(side, ask_book, bid_book), p)
                     after == RestingAt(BookOf(side, ask_book', bid_book'), p)
                 IN \/ after = before
                    \/ after = Append(before, last')
                    \/ /\ side = (IF last'.side = "Buy" THEN "S" ELSE "B")
                       /\ \E i \in Trades(log') : \E j \in 1..Len(before) :
                             /\ after = VecRemove(before, j)
                             /\ Names(log'[i], last', before[j])
        /\ last'.kind = "Cancel" =>
              \A side \in {"S", "B"} : \A p \in Prices :
                 LET before == RestingAt(BookOf(side, ask_book, bid_book), p)
                     after == RestingAt(BookOf(side, ask_book', bid_book'), p)
                 IN /\ Others(after, last') = Others(before, last')
                    /\ Len(after) <= Len(before)
      ]_vars

\* C13: a call that starts with (user, user_order_id) unique among the
\* resting orders and no empty bucket ends with no empty bucket in the bid
\* book and none in the ask book.
C13_NoEmptyBucket ==
    [][ (/\ UniqueIds(ask_book, bid_book)
         /\ NoEmptyBucket(ask_book)
         /\ NoEmptyBucket(bid_book)) =>
          /\ NoEmptyBucket(ask_book')
          /\ NoEmptyBucket(bid_book')
      ]_vars

\* C14: after every call the cached top of book of each side is the value
\* derived from the book: absent if no order rests on the side, otherwise
\* the best price and the sum of the quantities resting at it.
C14_CacheIsTopOfBook ==
    /\ lowest_ask = TopOf(ask_book, "S")
    /\ highest_bid = TopOf(bid_book, "B")

\* C17: a Cancel on books without an empty bucket leaves no empty bucket and
\* emits no BookUpdate of volume 0, also when several buckets of one side
\* hold an order with the cancelled (user, user_order_id).
C17_CancelPrunesEveryEmptyBucket ==
    [][ (/\ last'.kind = "Cancel"
         /\ NoEmptyBucket(ask_book)
         /\ NoEmptyBucket(bid_book)) =>
          /\ NoEmptyBucket(ask_book')
          /\ NoEmptyBucket(bid_book')
          /\ \A i \in DOMAIN log' :
                (log'[i].type = "B" /\ log'[i].level # None) => log'[i].level[2] # 0
      ]_vars

\* C18: every BookUpdate of the last call that reports a present level
\* reports the best price at which an order rests on its side and the sum of
\* the quantities resting there, which is positive.
C18_BookUpdateIsTruthful ==
    \A i \in DOMAIN log :
        (log[i].type = "B" /\ log[i].level # None) =>
            /\ log[i].level = TopOf(BookOf(log[i].side, ask_book, bid_book), log[i].side)
            /\ log[i].level[2] > 0

\* the positions of the bucket whose order has the quantity of the incoming
\* order at a marketable price
EligibleAt(bucket, order) ==
    {j \in 1..Len(bucket) :
        /\ bucket[j].qty = order.qty
        /\ IF order.side = "Buy" THEN bucket[j].price <= order.price
                                 ELSE bucket[j].price >= order.price}

\* C19: in match mode the Trade of a New order names the earliest arrived of
\* the eligible orders of the best level of the opposite book, and the other
\* orders of that bucket keep their arrival order.
C19_EarliestEligibleTrades ==
    [][ (match_orders /\ last'.kind = "New") =>
          \A i \in Trades(log') :
             LET opp == Opp(last', ask_book, bid_book)
                 oppAfter == Opp(last', ask_book', bid_book')
                 bucket == opp[BestOpp(last', opp)]
                 first == MinKey(EligibleAt(bucket, last'))
             IN /\ Populated(opp) # {}
                /\ EligibleAt(bucket, last') # {}
                /\ Names(log'[i], last', bucket[first])
                /\ RemovedAt(opp, oppAfter, BestOpp(last', opp), first)
      ]_vars

\* a Buy traded with the order of one user while an order of another user,
\* of the same quantity, is left behind in the bucket at the trade's price
C19_Witness ==
    /\ match_orders
    /\ last.kind = "New"
    /\ last.side = "Buy"
    /\ gone = 1
    /\ \E i \in Trades(log) : \E j \in 1..Len(RestingAt(ask_book, log[i].price)) :
          LET left == ask_book[log[i].price][j]
          IN /\ left.qty = last.qty
             /\ left.price <= last.price
             /\ left.user # log[i].sell_user

\* C20: a New emits first exactly one Accept or Reject for its own
\* (user, user_order_id); a Trade comes right after the Accept and every
\* BookUpdate after the Accept and the Trade; a Cancel emits its Accept
\* first and BookUpdates only after it; a Reject occurs only in non-match
\* mode and a Trade only in match mode.
C20_EventOrder ==
    /\ last.kind = "New" =>
          /\ log # <<>>
          /\ \/ log[1] = Accept(last.user, last.user_order_id)
             \/ log[1] = Reject(last.user, last.user_order_id)
          /\ \A i \in DOMAIN log :
                /\ log[i].type \in {"A", "R"} => i = 1
                /\ log[i].type = "T" => (i = 2 /\ log[1].type = "A")
                /\ log[i].type = "B" =>
                      /\ log[1].type = "A"
                      /\ \A j \in Trades(log) : j < i
                /\ log[i].type \in {"A", "R", "T", "B"}
    /\ last.kind = "Cancel" =>
          /\ log # <<>>
          /\ log[1] = Accept(last.user, last.user_order_id)
          /\ \A i \in DOMAIN log : i > 1 => log[i].type = "B"
    /\ \A i \in DOMAIN log :
          /\ log[i].type = "R" => ~match_orders
          /\ log[i].type = "T" => match_orders

\* a New was answered with Accept, Trade and BookUpdate, in this order
C20_Witness ==
    /\ last.kind = "New"
    /\ Len(log) = 3
    /\ log[1].type = "A"
    /\ log[2].type = "T"
    /\ log[3].type = "B"

\* C15: the printed lines are the messages the engine sent, in the order
\* sent, call after call: at every moment the lines printed followed by the
\* messages still in the channel are the messages sent so far, and when main
\* returns every message sent has been printed.
C15_PrintedIsEmitted ==
    /\ printed \o output_chan = emitted
    /\ main_pc = "done" => printed = emitted

\* main has returned after the engine sent at least three messages in two calls
C15_Witness ==
    /\ main_pc = "done"
    /\ Len(printed) >= 3
    /\ last.kind # "None"
    /\ Len(log) < Len(printed)

\* the process has ended: main returned, both threads ended, all printed
Terminated ==
    /\ main_pc = "done"
    /\ reader_pc = "done"
    /\ output_pc = "done"
    /\ printed = emitted

\* C16: for every input the reader ends, the engine loop ends, the engine is
\* dropped, the output thread prints every message sent and ends, and main
\* returns: no thread waits forever on a channel.
C16_Shutdown == <>Terminated

\* the process has ended after printing the messages of a non-empty input
C16_Witness ==
    /\ Terminated
    /\ Len(printed) >= 2

\* the engine has instructions of the input stream left to apply: a record
\* the reader has not sent yet, or an order waiting in the order channel
InstructionsLeft == input # <<>> \/ order_chan # <<>>

\* C21: printing does not wait for the whole input stream: a message the
\* engine has sent and that is not printed yet can be printed by the output
\* thread while the engine still has instructions left to apply.
C21_PrintsWhileInstructionsLeft ==
    (output_chan # <<>> /\ InstructionsLeft) => ENABLED OutputPrint

\* what main does instead: as long as an instruction is left the output
\* thread does not exist, nothing is printed and nothing can be printed
C21_PrintingWaitsForInput ==
    InstructionsLeft => /\ output_pc = "none"
                        /\ printed = <<>>
                        /\ ~ENABLED OutputPrint

\* a message waits in the output channel while an instruction is left
C21_Pending ==
    /\ output_chan # <<>>
    /\ InstructionsLeft

\* the book is neither crossed nor locked: if an order rests on each side,
\* the highest resting buy price is below the lowest resting sell price
Uncrossed(asks, bids) ==
    (Populated(asks) # {} /\ Populated(bids) # {}) => BestBid(bids) < BestAsk(asks)

\* C22: in non-match mode, after every call that leaves (user,
\* user_order_id) unique among the resting orders, the highest resting buy
\* price is strictly below the lowest resting sell price whenever an order
\* rests on each side.
C22_NeverCrossedOrLocked ==
    (~match_orders /\ UniqueIds(ask_book, bid_book)) => Uncrossed(ask_book, bid_book)

\* non-match mode, unique ids, orders resting on both sides, and the last
\* call was a New that crossed them and was rejected
C22_Witness ==
    /\ ~match_orders
    /\ UniqueIds(ask_book, bid_book)
    /\ Populated(ask_book) # {}
    /\ Populated(bid_book) # {}
    /\ last.kind = "New"
    /\ log # <<>>
    /\ log[1].type = "R"

====
